---- MODULE Spec2Model ----
(***************************************************************************)
(* A model of the retrying HTTP transports and of the TTL cache of         *)
(* pytenable-was.                                                          *)
(*                                                                         *)
(*   client = "core" : class HTTPClient of src/http.py                     *)
(*   client = "was"  : class HTTPClient of src/pytenable_was/http.py       *)
(*   store           : InMemoryCache._store of src/cache.py                *)
(*                                                                         *)
(* One logical request is a run of _request: the Request action enters the *)
(* retry loop, and every Attempt action is one pass of the loop body: one  *)
(* requests.request call, the server's reply (an input) and everything the *)
(* code does with it up to the next requests.request call or the end of    *)
(* _request.  The hooks of src/http.py (before_request, after_response)    *)
(* default to None and their exceptions are swallowed; they are left out.  *)
(*                                                                         *)
(* SpecApps runs the cache-backed wrappers of src/apps.py and src/notes.py *)
(* (get_app, list_notes, list_all) from two threads, a cache method being  *)
(* the taking of _lock followed by its body.  SpecPages runs the two page  *)
(* collectors, list_scans of src/scans.py and search_all of src/vulns.py,  *)
(* against one page source.  SpecDelete runs get_app and delete_app from   *)
(* two threads.  SpecSdk runs the wrapper methods and the batch methods    *)
(* over the outcomes of the transport, SpecPoll the poll-until-terminal    *)
(* loop, and SpecUtils group_by_severity of the two utils modules.         *)
(***************************************************************************)
EXTENDS Integers, Sequences, FiniteSets, TLC

\* ------------------------------------------------------------------------
\* Bounds of the model
\* ------------------------------------------------------------------------
\* logical requests (calls of _request) in one behaviour
MaxCalls == 2

\* the last value of the clock time.time()
MaxTime == 2

\* calls of set, delete, clear_namespace, clear_all and warm in one behaviour
\* (get is not counted)
MaxWrites == 2

\* ------------------------------------------------------------------------
\* Program constants
\* ------------------------------------------------------------------------
MaxAttempts == 5

InitialRetries == 5

InitialBackoff == 2

ThrottleStatus == 429

ErrorStatus == 400

NoContentStatus == 204

DEFAULT_BASE_URL == "https://cloud.tenable.com"

BASE_URL == "https://cloud.tenable.com"

\* ------------------------------------------------------------------------
\* Inputs
\* ------------------------------------------------------------------------
Clients == {"core", "was"}

Methods == {"GET", "POST", "PUT", "DELETE"}

Paths == {"/was/v2/scans", "/was/v2/applications"}

Statuses == {200, 204, 404, 429, 500}

\* response.text: empty, whitespace only, a JSON list, JSON null, not JSON
Texts == {"", " ", "[1]", "null", "ERR"}

Responses == [type : {"response"}, status : Statuses, text : Texts]

\* requests.exceptions.Timeout / requests.exceptions.ConnectionError
Failures == {[type |-> "Timeout", status |-> 0, text |-> ""],
             [type |-> "ConnectionError", status |-> 0, text |-> ""]}

Replies == Responses \cup Failures

\* ------------------------------------------------------------------------
\* Python values
\* ------------------------------------------------------------------------
None == [kind |-> "none", val |-> ""]

Text(t) == [kind |-> "text", val |-> t]

Json(v) == [kind |-> "json", val |-> v]

\* str.strip() on the texts above
Strip(t) == IF t = " " THEN "" ELSE t

\* response.json(): JsonOk when the text parses, JsonValue the decoded value
JsonOk(t) == t \in {"[1]", "null"}

JsonValue(t) == IF t = "null" THEN None ELSE Json("list(1)")

\* client .. seen: the transport and its current logical request;
\* now: time.time(); store: InMemoryCache._store; ops: the number of writing
\* calls so far; lastOp: the last cache call and its result (a Tick clears
\* it); hist: for every key, its last write that no delete or clear removed.
\* lock: the holder of InMemoryCache._lock; thr: the wrapper call every
\* thread is in; started: the number of wrapper calls begun so far;
\* listed: a list_all has cached a remote listing; gone: the ids of the
\* applications deleted at the remote.
\* source: the paged server; coll: the two page collectors.
\* sdk: the call of an API wrapper method in progress.
\* poll: the poll-until-terminal call in progress.
\* grp: the call of group_by_severity in progress.
VARIABLES client, headers, api_key, pc, calls, method, url, attempt, retries,
          backoff, sent, recv, last, slept, outcome, seen, now, ops, store,
          lastOp, hist, lock, thr, started, listed, gone, source, coll, sdk,
          poll, grp

httpVars == <<client, headers, api_key, pc, calls, method, url, attempt,
              retries, backoff, sent, recv, last, slept, outcome, seen>>

cacheVars == <<now, ops, store, lastOp, hist>>

appVars == <<lock, thr, started, listed, gone>>

pageVars == <<source, coll>>

sdkVars == <<sdk>>

pollVars == <<poll>>

utilVars == <<grp>>

vars == <<client, headers, api_key, pc, calls, method, url, attempt, retries,
          backoff, sent, recv, last, slept, outcome, seen, now, ops, store,
          lastOp, hist, lock, thr, started, listed, gone, source, coll, sdk,
          poll, grp>>

\* ------------------------------------------------------------------------
\* src/auth.py and the construction of the clients
\* ------------------------------------------------------------------------
EmptyDict == [h \in {} |-> ""]

\* dict.update: the entries of extra replace those of base
DictUpdate(base, extra) == extra @@ base

build_headers_noauth(access_key, secret_key, extra_headers, user_agent) ==
    LET base == ("Accept" :> "application/json")
                @@ ("Content-Type" :> "application/json")
        withUA == IF user_agent # ""
                  THEN DictUpdate(base, "User-Agent" :> user_agent)
                  ELSE base
    IN  DictUpdate(withUA, extra_headers)

build_headers(access_key, secret_key, extra_headers, user_agent) ==
    LET base == ("Accept" :> "application/json")
                @@ ("Content-Type" :> "application/json")
                @@ ("X-ApiKeys" :> ("accessKey=" \o access_key
                                    \o "; secretKey=" \o secret_key))
        withUA == IF user_agent # ""
                  THEN DictUpdate(base, "User-Agent" :> user_agent)
                  ELSE base
    IN  DictUpdate(withUA, extra_headers)

\* TenableWAS.__init__: headers = build_headers(access_key, secret_key)
TenableWAS_headers(access_key, secret_key) ==
    build_headers(access_key, secret_key, EmptyDict, "")

\* HTTPClient._headers of src/pytenable_was/http.py
WasHeaders(key) ==
    ("Accept" :> "application/json")
    @@ ("Content-Type" :> "application/json")
    @@ ("X-API-Key" :> key)

AccessKeys == {"AK", "AK2"}

SecretKeys == {"SK"}

ApiKeys == {"KEY", "KEY2"}

\* ------------------------------------------------------------------------
\* Outcome of _request: a returned value or a raised error
\* ------------------------------------------------------------------------
NoOutcome == [result |-> "none", kind |-> "", status |-> {}, message |-> None,
              payload |-> None, url |-> {}, value |-> None]

Return(v) == [NoOutcome EXCEPT !.result = "return", !.value = v]

Raise(kind, status, message, payload, u) ==
    [result |-> "raise", kind |-> kind, status |-> status, message |-> message,
     payload |-> payload, url |-> u, value |-> None]

\* ------------------------------------------------------------------------
\* What one logical request did, as a test double of requests.request and
\* time.sleep records it: sent (the calls of requests.request), recv (the
\* type and status of every reply), last (the last reply), slept (the
\* arguments of time.sleep); seen collects, over the requests of a client,
\* which kind of error each cause of failure was raised as.
\* ------------------------------------------------------------------------
NoReply == [type |-> "none", status |-> 0, text |-> ""]

Received(reply) == [type |-> reply.type, status |-> reply.status]

Cause(reply) ==
    IF reply.type = "Timeout" THEN "timeout"
    ELSE IF reply.type = "ConnectionError" THEN "network"
    ELSE IF reply.status = ThrottleStatus THEN "throttle"
    ELSE IF reply.status >= ErrorStatus THEN "status"
    ELSE "none"

Seen(reply, out) ==
    IF out.result = "raise" /\ Cause(reply) # "none"
    THEN seen \cup {[cause |-> Cause(reply), kind |-> out.kind]}
    ELSE seen

\* ------------------------------------------------------------------------
\* src/http.py: HTTPClient._request
\* ------------------------------------------------------------------------
CoreLoopContinuesOffByOne(a) == a <= MaxAttempts

\* while attempt < 5
CoreLoopContinues(a) == a < MaxAttempts

CoreIsThrottledOr5xx(status) == status = ThrottleStatus \/ status >= 500

\* if response.status_code == 429
CoreIsThrottled(status) == status = ThrottleStatus

CoreDelayLinear(a) == 2 * a

\* delay = 2 ** attempt
CoreDelay(a) == 2 ^ a

CoreNoContentExact(t) == t = ""

\* if not response.text.strip()
CoreNoContent(t) == Strip(t) = ""

CoreNetworkErrorMerged(type, u) ==
    Raise("ConnectionError", {}, Text("Connection failed for " \o u), None, {})

\* except requests.exceptions.Timeout / except requests.exceptions.ConnectionError
CoreNetworkError(type, u) ==
    IF type = "Timeout"
    THEN Raise("TimeoutError", {}, Text("Timeout while calling " \o u), None, {})
    ELSE Raise("ConnectionError", {}, Text("Connection failed for " \o u), None, {})

\* raise APIError(response.status_code, response.text, url)
CoreAPIError(status, t, u) == Raise("APIError", {status}, Text(t), None, {u})

CoreThrottleError(u) ==
    Raise("ThrottleError", {},
          Text("Exceeded retry attempts after repeated 429 responses for " \o u),
          None, {})

\* the part of the loop body after a response that is neither 429 nor >= 400
CoreSuccess(t) ==
    IF CoreNoContent(t) THEN Return(None)
    ELSE IF JsonOk(t) THEN Return(JsonValue(t))
    ELSE Raise("JSONDecodeError", {}, Text(t), None, {})

CoreRequest(m, p) ==
    /\ client = "core"
    /\ pc \in {"idle", "done"}
    /\ calls < MaxCalls
    /\ calls' = calls + 1
    /\ method' = m
    /\ url' = DEFAULT_BASE_URL \o p
    /\ attempt' = 0
    /\ sent' = <<>>
    /\ recv' = <<>>
    /\ last' = NoReply
    /\ slept' = <<>>
    /\ outcome' = NoOutcome
    /\ seen' = seen
    /\ pc' = "loop"
    /\ UNCHANGED <<client, headers, api_key, retries, backoff>>
    /\ UNCHANGED <<cacheVars, appVars, pageVars, sdkVars, pollVars, utilVars>>

CoreAttempt(reply) ==
    /\ client = "core"
    /\ pc = "loop"
    /\ CoreLoopContinues(attempt)
    /\ sent' = Append(sent, [method |-> method, url |-> url, headers |-> headers])
    /\ recv' = Append(recv, Received(reply))
    /\ last' = reply
    /\ IF reply.type # "response"
       THEN /\ outcome' = CoreNetworkError(reply.type, url)
            /\ pc' = "done"
            /\ UNCHANGED <<attempt, slept>>
       ELSE IF CoreIsThrottled(reply.status)
       THEN /\ slept' = Append(slept, CoreDelay(attempt))
            /\ attempt' = attempt + 1
            /\ IF CoreLoopContinues(attempt + 1)
               THEN /\ pc' = "loop"
                    /\ outcome' = outcome
               ELSE /\ pc' = "done"
                    /\ outcome' = CoreThrottleError(url)
       ELSE /\ outcome' = IF reply.status >= ErrorStatus
                          THEN CoreAPIError(reply.status, reply.text, url)
                          ELSE CoreSuccess(reply.text)
            /\ pc' = "done"
            /\ UNCHANGED <<attempt, slept>>
    /\ seen' = Seen(reply, outcome')
    /\ UNCHANGED <<client, headers, api_key, calls, method, url, retries, backoff>>
    /\ UNCHANGED <<cacheVars, appVars, pageVars, sdkVars, pollVars, utilVars>>

\* ------------------------------------------------------------------------
\* src/pytenable_was/http.py: HTTPClient._request
\* ------------------------------------------------------------------------
WasBudgetExhaustedEarly(r) == r <= 1

\* if retries <= 0
WasBudgetExhausted(r) == r <= 0

\* except requests.RequestException as exc
WasRequestFailed(type) ==
    Raise("TenableAPIError", {}, Text("HTTP request failed: " \o type), None, {})

WasTooManyRetries ==
    Raise("TenableAPIError", {}, Text("Too many retries (429 Too Many Requests)"),
          None, {})

\* payload = response.json(), or response.text or "" when that fails
WasPayload(t) == IF JsonOk(t) THEN JsonValue(t) ELSE Text(t)

WasAPIError(status, t) ==
    Raise("TenableAPIError", {status}, Text("Tenable API error"), WasPayload(t), {})

\* the code after the error handling: 204, then response.json()
WasSuccess(status, t) ==
    IF status = NoContentStatus THEN Return(None)
    ELSE IF JsonOk(t) THEN Return(JsonValue(t))
    ELSE Raise("TenableAPIError", {},
               Text("Invalid JSON response from Tenable API."), None, {})

WasRequest(m, p) ==
    /\ client = "was"
    /\ pc \in {"idle", "done"}
    /\ calls < MaxCalls
    /\ calls' = calls + 1
    /\ method' = m
    /\ url' = BASE_URL \o p
    /\ retries' = InitialRetries
    /\ backoff' = InitialBackoff
    /\ sent' = <<>>
    /\ recv' = <<>>
    /\ last' = NoReply
    /\ slept' = <<>>
    /\ outcome' = NoOutcome
    /\ seen' = seen
    /\ pc' = "loop"
    /\ UNCHANGED <<client, headers, api_key, attempt>>
    /\ UNCHANGED <<cacheVars, appVars, pageVars, sdkVars, pollVars, utilVars>>

WasAttempt(reply) ==
    /\ client = "was"
    /\ pc = "loop"
    /\ sent' = Append(sent, [method |-> method, url |-> url,
                             headers |-> WasHeaders(api_key)])
    /\ recv' = Append(recv, Received(reply))
    /\ last' = reply
    /\ IF reply.type # "response"
       THEN /\ outcome' = WasRequestFailed(reply.type)
            /\ pc' = "done"
            /\ UNCHANGED <<retries, backoff, slept>>
       ELSE IF reply.status = ThrottleStatus
       THEN IF WasBudgetExhausted(retries)
            THEN /\ outcome' = WasTooManyRetries
                 /\ pc' = "done"
                 /\ UNCHANGED <<retries, backoff, slept>>
            ELSE /\ slept' = Append(slept, backoff)
                 /\ retries' = retries - 1
                 /\ backoff' = backoff * 2
                 /\ pc' = "loop"
                 /\ outcome' = outcome
       ELSE /\ outcome' = IF reply.status >= ErrorStatus
                          THEN WasAPIError(reply.status, reply.text)
                          ELSE WasSuccess(reply.status, reply.text)
            /\ pc' = "done"
            /\ UNCHANGED <<retries, backoff, slept>>
    /\ seen' = Seen(reply, outcome')
    /\ UNCHANGED <<client, headers, api_key, calls, method, url, attempt>>
    /\ UNCHANGED <<cacheVars, appVars, pageVars, sdkVars, pollVars, utilVars>>

NextHttp ==
    \/ \E m \in Methods, p \in Paths : CoreRequest(m, p)
    \/ \E reply \in Replies : CoreAttempt(reply)
    \/ \E m \in Methods, p \in Paths : WasRequest(m, p)
    \/ \E reply \in Replies : WasAttempt(reply)

\* ------------------------------------------------------------------------
\* src/cache.py: CacheEntry and InMemoryCache
\* ------------------------------------------------------------------------
\* the namespaces InMemoryCache.__init__ creates
InitialNamespaces == {"scans", "apps", "findings", "urls", "raw"}

\* the namespaces the operations are called with ("tmp" is not created
\* by __init__)
Namespaces == {"scans", "apps", "tmp"}

Keys == {"x", "y"}

Values == {"v1", "v2"}

\* ttl: Optional[int], {} for None
TTLs == {{}, {1}}

\* the items a warm call is given
WarmItems == {EmptyDict, ("x" :> "v2") @@ ("y" :> "v1")}

\* CacheEntry.__init__: timestamp = time.time()
CacheEntry(value, ttl, time) == [value |-> value, timestamp |-> time, ttl |-> ttl]

ExpiredInclusive(entry, time) ==
    entry.ttl # {} /\ \E T \in entry.ttl : (time - entry.timestamp) >= T

\* CacheEntry.expired
Expired(entry, time) ==
    entry.ttl # {} /\ \E T \in entry.ttl : (time - entry.timestamp) > T

\* d[k] = e
DictSet(d, k, e) == [x \in DOMAIN d \cup {k} |-> IF x = k THEN e ELSE d[x]]

\* del d[k]
DictDel(d, k) == [x \in DOMAIN d \ {k} |-> d[x]]

StoreSetKeepTimestamp(st, ns, key, value, ttl, time) ==
    LET base == IF ns \in DOMAIN st THEN st ELSE (ns :> EmptyDict) @@ st
        t == IF key \in DOMAIN base[ns] THEN base[ns][key].timestamp ELSE time
    IN  [base EXCEPT ![ns] = DictSet(base[ns], key, CacheEntry(value, ttl, t))]

\* the store after self._store[namespace][key] = CacheEntry(value, ttl),
\* the namespace created first when it is missing
StoreSet(st, ns, key, value, ttl, time) ==
    LET base == IF ns \in DOMAIN st THEN st ELSE (ns :> EmptyDict) @@ st
    IN  [base EXCEPT ![ns] = DictSet(base[ns], key, CacheEntry(value, ttl, time))]

StoreEvictNamespace(st, ns, key) == [st EXCEPT ![ns] = EmptyDict]

\* get on an expired entry: del ns[key]
StoreEvict(st, ns, key) == [st EXCEPT ![ns] = DictDel(st[ns], key)]

StoreClearEverything(st, ns) == [n \in DOMAIN st |-> EmptyDict]

\* self._store[namespace].clear()
StoreClear(st, ns) == [st EXCEPT ![ns] = EmptyDict]

\* the store after the loop of warm over items
StoreWarm(st, ns, items, ttl, time) ==
    [st EXCEPT ![ns] =
        [x \in DOMAIN st[ns] \cup DOMAIN items |->
            IF x \in DOMAIN items THEN CacheEntry(items[x], ttl, time)
            ELSE st[ns][x]]]

\* the keys of namespace ns in store st
KeysOf(st, ns) == IF ns \in DOMAIN st THEN DOMAIN st[ns] ELSE {}

Op(op, ns, key, result, value) ==
    [op |-> op, ns |-> ns, key |-> key, result |-> result, value |-> value]

\* the last write of every key that no delete or clear has removed since
HistRecord(value, ttl) == [value |-> value, c |-> now, ttl |-> ttl]

Get(ns, key) ==
    /\ IF ns \notin DOMAIN store \/ key \notin DOMAIN store[ns]
       THEN /\ lastOp' = Op("get", ns, key, "miss", "")
            /\ store' = store
       ELSE IF Expired(store[ns][key], now)
       THEN /\ lastOp' = Op("get", ns, key, "expired", "")
            /\ store' = StoreEvict(store, ns, key)
       ELSE /\ lastOp' = Op("get", ns, key, "hit", store[ns][key].value)
            /\ store' = store
    /\ UNCHANGED <<now, ops, hist>>
    /\ UNCHANGED <<httpVars, appVars, pageVars, sdkVars, pollVars, utilVars>>

Set(ns, key, value, ttl) ==
    /\ ops < MaxWrites
    /\ ops' = ops + 1
    /\ store' = StoreSet(store, ns, key, value, ttl, now)
    /\ lastOp' = Op("set", ns, key, "ok", "")
    /\ hist' = DictSet(hist, <<ns, key>>, HistRecord(value, ttl))
    /\ UNCHANGED now
    /\ UNCHANGED <<httpVars, appVars, pageVars, sdkVars, pollVars, utilVars>>

Delete(ns, key) ==
    /\ ops < MaxWrites
    /\ ops' = ops + 1
    /\ store' = IF ns \in DOMAIN store /\ key \in DOMAIN store[ns]
                THEN [store EXCEPT ![ns] = DictDel(store[ns], key)]
                ELSE store
    /\ lastOp' = Op("delete", ns, key, "ok", "")
    /\ hist' = DictDel(hist, <<ns, key>>)
    /\ UNCHANGED now
    /\ UNCHANGED <<httpVars, appVars, pageVars, sdkVars, pollVars, utilVars>>

ClearNamespace(ns) ==
    /\ ops < MaxWrites
    /\ ops' = ops + 1
    /\ store' = IF ns \in DOMAIN store THEN StoreClear(store, ns) ELSE store
    /\ lastOp' = Op("clear_namespace", ns, "", "ok", "")
    /\ hist' = [p \in {q \in DOMAIN hist : q[1] # ns} |-> hist[p]]
    /\ UNCHANGED now
    /\ UNCHANGED <<httpVars, appVars, pageVars, sdkVars, pollVars, utilVars>>

ClearAll ==
    /\ ops < MaxWrites
    /\ ops' = ops + 1
    /\ store' = [n \in DOMAIN store |-> EmptyDict]
    /\ lastOp' = Op("clear_all", "", "", "ok", "")
    /\ hist' = EmptyDict
    /\ UNCHANGED now
    /\ UNCHANGED <<httpVars, appVars, pageVars, sdkVars, pollVars, utilVars>>

Warm(ns, items, ttl) ==
    /\ ops < MaxWrites
    /\ ops' = ops + 1
    /\ IF DOMAIN items = {}
       THEN /\ store' = store
            /\ lastOp' = Op("warm", ns, "", "ok", "")
            /\ hist' = hist
       ELSE IF ns \notin DOMAIN store
       THEN /\ store' = store
            /\ lastOp' = Op("warm", ns, "", "KeyError", "")
            /\ hist' = hist
       ELSE /\ store' = StoreWarm(store, ns, items, ttl, now)
            /\ lastOp' = Op("warm", ns, "", "ok", "")
            /\ hist' = [p \in DOMAIN hist \cup {<<ns, k>> : k \in DOMAIN items} |->
                           IF p[1] = ns /\ p[2] \in DOMAIN items
                           THEN HistRecord(items[p[2]], ttl)
                           ELSE hist[p]]
    /\ UNCHANGED now
    /\ UNCHANGED <<httpVars, appVars, pageVars, sdkVars, pollVars, utilVars>>

\* time.time() advances
Tick ==
    /\ now < MaxTime
    /\ now' = now + 1
    /\ lastOp' = Op("tick", "", "", "ok", "")
    /\ UNCHANGED <<store, hist, ops>>
    /\ UNCHANGED <<httpVars, appVars, pageVars, sdkVars, pollVars, utilVars>>

NextCache ==
    \/ \E ns \in Namespaces, key \in Keys : Get(ns, key)
    \/ \E ns \in Namespaces, key \in Keys, value \in Values, ttl \in TTLs :
          Set(ns, key, value, ttl)
    \/ \E ns \in Namespaces, key \in Keys : Delete(ns, key)
    \/ \E ns \in Namespaces : ClearNamespace(ns)
    \/ ClearAll
    \/ \E ns \in Namespaces, items \in WarmItems, ttl \in TTLs :
          Warm(ns, items, ttl)
    \/ Tick

\* ------------------------------------------------------------------------
\* src/apps.py and src/notes.py: the wrappers that read through the cache,
\* called from several threads.  A wrapper call is a run of steps: every
\* cache method is two steps (taking _lock, then the body of the with block
\* and the release), the remote call is one step, and list_all reads the
\* dictionary of the "apps" namespace one entry per step.
\* ------------------------------------------------------------------------
Threads == {"t1", "t2"}

MaxStarted == 3

\* ttl=600 of every cache.set of the wrappers
TTL_APPS == 600

\* the seconds between two readings of time.time()
ClockStep == 400

WrapperOps == {"get_app", "list_notes", "list_all"}

\* the ids a wrapper is called with (list_all takes none)
IdsOf(op) == IF op = "list_all" THEN {""} ELSE {"x"}

\* the namespace a wrapper uses
NsOf(op) == IF op = "list_notes" THEN "notes" ELSE "apps"

\* the order in which a dictionary of the cache yields its keys
KeyOrder == <<"x", "y">>

\* Python values: one ApplicationModel, or a list
PyNone == [kind |-> "none", items |-> <<>>]

PyModel(id, v) == [kind |-> "model", items |-> <<[id |-> id, v |-> v]>>]

PyList(items) == [kind |-> "list", items |-> items]

\* the answers of the remote API: the transport raises, or returns the body
Failed == [ok |-> FALSE, items |-> <<>>]

Body(items) == [ok |-> TRUE, items |-> items]

RepliesOf(op, id) ==
    IF op = "get_app"
    THEN {Failed, Body(<<[id |-> id, v |-> "v1"]>>),
          Body(<<[id |-> id, v |-> "v2"]>>), Body(<<[id |-> "", v |-> "v1"]>>)}
    ELSE IF op = "list_notes"
    THEN {Failed, Body(<<>>), Body(<<[id |-> "", v |-> "v1"]>>)}
    ELSE {Failed, Body(<<>>), Body(<<[id |-> "x", v |-> "v1"]>>),
          Body(<<[id |-> "x", v |-> "v2"], [id |-> "y", v |-> "v1"]>>)}

NoResult == [result |-> "none", kind |-> "", value |-> PyNone]

Returned(v) == [result |-> "return", kind |-> "", value |-> v]

Raised(kind) == [result |-> "raise", kind |-> kind, value |-> PyNone]

IdleThread ==
    [pc |-> "idle", op |-> "", id |-> "", use_cache |-> FALSE, look |-> "",
     fetches |-> 0, got |-> NoResult, todo |-> <<>>, n |-> 0, seenKeys |-> {},
     acc |-> <<>>, stale |-> FALSE, ret |-> NoResult]

\* the value a wrapper returns for the body of its remote call
FetchedValue(op, items) ==
    IF op = "get_app" THEN PyModel(items[1].id, items[1].v) ELSE PyList(items)

\* the cache.set calls a wrapper makes for the body of its remote call:
\* get_app and list_all cache every model that has an id under that id,
\* list_notes caches the list under the scan id
RECURSIVE ToCache(_, _, _)
ToCache(op, id, items) ==
    IF op = "list_notes" THEN <<[key |-> id, value |-> PyList(items)]>>
    ELSE IF items = <<>> THEN <<>>
    ELSE (IF Head(items).id # ""
          THEN <<[key |-> Head(items).id,
                  value |-> PyModel(Head(items).id, Head(items).v)]>>
          ELSE <<>>) \o ToCache(op, id, Tail(items))

OnCacheMissEscapes(th, look) ==
    [th EXCEPT !.look = look, !.pc = "done", !.ret = Raised("CacheKeyError")]

\* except Exception: pass, then the remote call
OnCacheMiss(th, look) == [th EXCEPT !.look = look, !.pc = "fetch"]

\* a call of get_app, list_notes, list_all or delete_app begins
WrapperCall(t, op, id, use_cache) ==
    /\ thr[t].pc \in {"idle", "done"}
    /\ started < MaxStarted
    /\ started' = started + 1
    /\ thr' = [thr EXCEPT ![t] =
                  [IdleThread EXCEPT
                      !.pc = IF op = "delete_app" THEN "del_remote"
                             ELSE IF ~use_cache THEN "fetch"
                             ELSE IF op = "list_all" THEN "read" ELSE "get",
                      !.op = op, !.id = id, !.use_cache = use_cache]]
    /\ UNCHANGED <<lock, listed, gone, now, store, ops, lastOp, hist>>
    /\ UNCHANGED <<httpVars, pageVars, sdkVars, pollVars, utilVars>>

\* with self._lock: of InMemoryCache.get, .set and .delete
LockAcquire(t) ==
    /\ thr[t].pc \in {"get", "set", "del"}
    /\ lock = "free"
    /\ lock' = t
    /\ thr' = [thr EXCEPT ![t].pc = IF thr[t].pc = "get" THEN "in_get"
                                    ELSE IF thr[t].pc = "set" THEN "in_set"
                                    ELSE "in_del"]
    /\ UNCHANGED <<started, listed, gone, now, store, ops, lastOp, hist>>
    /\ UNCHANGED <<httpVars, pageVars, sdkVars, pollVars, utilVars>>

\* the body of InMemoryCache.get, as get_app and list_notes call it
CacheGetLocked(t) ==
    /\ thr[t].pc = "in_get"
    /\ lock = t
    /\ lock' = "free"
    /\ LET ns == NsOf(thr[t].op)
           key == thr[t].id
       IN  IF key \notin KeysOf(store, ns)
           THEN /\ thr' = [thr EXCEPT ![t] = OnCacheMiss(thr[t], "miss")]
                /\ store' = store
           ELSE IF Expired(store[ns][key], now)
           THEN /\ thr' = [thr EXCEPT ![t] = OnCacheMiss(thr[t], "expired")]
                /\ store' = StoreEvict(store, ns, key)
           ELSE /\ thr' = [thr EXCEPT ![t].look = "hit", ![t].pc = "done",
                                      ![t].stale = Expired(store[ns][key], now),
                                      ![t].ret = Returned(store[ns][key].value)]
                /\ store' = store
    /\ UNCHANGED <<started, listed, gone, now, ops, lastOp, hist>>
    /\ UNCHANGED <<httpVars, pageVars, sdkVars, pollVars, utilVars>>

\* _api_get_app, _api_list_notes, _api_list_apps and what the wrapper makes
\* of the body; the remote returns no application that was deleted
RemoteFetch(t, reply) ==
    /\ thr[t].pc = "fetch"
    /\ reply \in RepliesOf(thr[t].op, thr[t].id)
    /\ \A i \in 1..Len(reply.items) : reply.items[i].id \notin gone
    /\ IF ~reply.ok
       THEN thr' = [thr EXCEPT ![t].fetches = @ + 1, ![t].pc = "done",
                               ![t].got = Raised("TransportError"),
                               ![t].ret = Raised("TransportError")]
       ELSE LET value == FetchedValue(thr[t].op, reply.items)
                todo == ToCache(thr[t].op, thr[t].id, reply.items)
            IN  thr' = [thr EXCEPT ![t].fetches = @ + 1,
                                   ![t].pc = IF todo = <<>> THEN "done" ELSE "set",
                                   ![t].got = Returned(value),
                                   ![t].todo = todo,
                                   ![t].ret = Returned(value)]
    /\ UNCHANGED <<lock, started, listed, gone, now, store, ops, lastOp, hist>>
    /\ UNCHANGED <<httpVars, pageVars, sdkVars, pollVars, utilVars>>

\* the body of InMemoryCache.set, as the wrappers call it
CacheSetLocked(t) ==
    /\ thr[t].pc = "in_set"
    /\ lock = t
    /\ lock' = "free"
    /\ store' = StoreSet(store, NsOf(thr[t].op), Head(thr[t].todo).key,
                         Head(thr[t].todo).value, {TTL_APPS}, now)
    /\ thr' = [thr EXCEPT ![t].todo = Tail(@),
                          ![t].pc = IF Tail(thr[t].todo) = <<>> THEN "done" ELSE "set"]
    /\ listed' = (listed \/ (thr[t].op = "list_all" /\ Tail(thr[t].todo) = <<>>))
    /\ UNCHANGED <<started, gone, now, ops, lastOp, hist>>
    /\ UNCHANGED <<httpVars, pageVars, sdkVars, pollVars, utilVars>>

\* list_all: cached = self.cache._store.get("apps", {}); if cached:
ListAllRead(t) ==
    /\ thr[t].pc = "read"
    /\ IF KeysOf(store, "apps") # {}
       THEN thr' = [thr EXCEPT ![t].pc = "iter", ![t].look = "hit",
                               ![t].n = Cardinality(KeysOf(store, "apps"))]
       ELSE thr' = [thr EXCEPT ![t].pc = "fetch", ![t].look = "miss"]
    /\ UNCHANGED <<lock, started, listed, gone, now, store, ops, lastOp, hist>>
    /\ UNCHANGED <<httpVars, pageVars, sdkVars, pollVars, utilVars>>

\* list_all: one step of [entry.value for entry in cached.values()]; the
\* iterator of a dictionary raises RuntimeError when the size of the
\* dictionary has changed since the iteration began
ListAllNext(t) ==
    /\ thr[t].pc = "iter"
    /\ LET cached == store["apps"]
           rest == {i \in 1..Len(KeyOrder) :
                       KeyOrder[i] \in DOMAIN cached \ thr[t].seenKeys}
       IN  IF Cardinality(DOMAIN cached) # thr[t].n
           THEN thr' = [thr EXCEPT ![t].pc = "done",
                                   ![t].ret = Raised("RuntimeError")]
           ELSE IF rest = {}
           THEN thr' = [thr EXCEPT ![t].pc = "done",
                                   ![t].ret = Returned(PyList(thr[t].acc))]
           ELSE LET k == KeyOrder[CHOOSE i \in rest : \A j \in rest : i <= j]
                IN  thr' = [thr EXCEPT ![t].seenKeys = @ \cup {k},
                                       ![t].stale = @ \/ Expired(cached[k], now),
                                       ![t].acc = @ \o cached[k].value.items]
    /\ UNCHANGED <<lock, started, listed, gone, now, store, ops, lastOp, hist>>
    /\ UNCHANGED <<httpVars, pageVars, sdkVars, pollVars, utilVars>>

\* time.time() advances
Elapse ==
    /\ now < MaxTime * ClockStep
    /\ now' = now + ClockStep
    /\ UNCHANGED <<lock, thr, started, listed, gone, store, ops, lastOp, hist>>
    /\ UNCHANGED <<httpVars, pageVars, sdkVars, pollVars, utilVars>>

NextApps ==
    \/ \E t \in Threads, op \in WrapperOps, use_cache \in BOOLEAN :
          \E id \in IdsOf(op) : WrapperCall(t, op, id, use_cache)
    \/ \E t \in Threads : LockAcquire(t)
    \/ \E t \in Threads : CacheGetLocked(t)
    \/ \E t \in Threads : \E reply \in RepliesOf(thr[t].op, thr[t].id) :
          RemoteFetch(t, reply)
    \/ \E t \in Threads : CacheSetLocked(t)
    \/ \E t \in Threads : ListAllRead(t)
    \/ \E t \in Threads : ListAllNext(t)
    \/ Elapse

\* delete_app: self._api_delete_app(app_id); an error of the transport
\* leaves delete_app before cache.delete
ApiDeleteApp(t, ok) ==
    /\ thr[t].pc = "del_remote"
    /\ IF ok
       THEN /\ gone' = gone \cup {thr[t].id}
            /\ thr' = [thr EXCEPT ![t].fetches = @ + 1, ![t].pc = "del"]
       ELSE /\ gone' = gone
            /\ thr' = [thr EXCEPT ![t].fetches = @ + 1, ![t].pc = "done",
                                  ![t].ret = Raised("TransportError")]
    /\ UNCHANGED <<lock, started, listed, now, store, ops, lastOp, hist>>
    /\ UNCHANGED <<httpVars, pageVars, sdkVars, pollVars, utilVars>>

\* the body of InMemoryCache.delete, as delete_app calls it
CacheDeleteLocked(t) ==
    /\ thr[t].pc = "in_del"
    /\ lock = t
    /\ lock' = "free"
    /\ store' = IF thr[t].id \in KeysOf(store, "apps")
                THEN StoreEvict(store, "apps", thr[t].id)
                ELSE store
    /\ thr' = [thr EXCEPT ![t].pc = "done", ![t].ret = Returned(PyNone)]
    /\ UNCHANGED <<started, listed, gone, now, ops, lastOp, hist>>
    /\ UNCHANGED <<httpVars, pageVars, sdkVars, pollVars, utilVars>>

\* the wrappers of the runs in which applications are deleted
DeleteOps == {"get_app", "delete_app"}

NextDelete ==
    \/ \E t \in Threads, op \in DeleteOps, use_cache \in BOOLEAN :
          \E id \in IdsOf(op) :
              /\ (op = "delete_app" => ~use_cache)
              /\ WrapperCall(t, op, id, use_cache)
    \/ \E t \in Threads : LockAcquire(t)
    \/ \E t \in Threads : CacheGetLocked(t)
    \/ \E t \in Threads : \E reply \in RepliesOf(thr[t].op, thr[t].id) :
          RemoteFetch(t, reply)
    \/ \E t \in Threads : CacheSetLocked(t)
    \/ \E t \in Threads, ok \in BOOLEAN : ApiDeleteApp(t, ok)
    \/ \E t \in Threads : CacheDeleteLocked(t)

\* ------------------------------------------------------------------------
\* src/scans.py and src/vulns.py: the page collectors
\* ------------------------------------------------------------------------
\* The server is a page source: it holds the items 1..T, serves at most P
\* of them per request, reports the total `total` and echoes pagination
\* values according to `echo`.  coll["scans"] is a run of
\* ScansAPI.list_scans(limit=L), coll["vulns"] a run of
\* VulnsAPI.search_all(page_size=L), both against the same source.  log is
\* the list of the page requests made so far with the page each one got.
Collectors == {"scans", "vulns"}

MaxItems == 5

MaxFetches == 6

\* the limit / page_size argument
Limits == {1, 2}

\* what the server puts in the pagination object of a page besides total:
\* nothing; the offset asked and the page size it used; the offset and the
\* limit asked; offset 0 and its page size on every page; the offset asked
\* and limit 0
EchoModes == {"none", "used", "requested", "stale", "zero"}

Sources ==
    {s \in [T : 0..MaxItems, P : 1..2, L : Limits,
            total : 0..(MaxItems + 1), echo : EchoModes] :
        /\ s.P <= s.L
        /\ s.total \in {0, s.T, s.T + 1}}

NoSource == [T |-> 0, P |-> 1, L |-> 1, total |-> 0, echo |-> "none"]

Min(a, b) == IF a <= b THEN a ELSE b

\* the response of the server to a request for (limit, offset)
Serve(s, limit, offset) ==
    [items |-> [i \in 1..(IF offset < s.T THEN Min(s.P, s.T - offset) ELSE 0) |->
                   offset + i],
     total |-> s.total,
     offset |-> IF s.echo = "none" THEN {}
                ELSE IF s.echo = "stale" THEN {0}
                ELSE {offset},
     limit |-> IF s.echo = "none" THEN {}
               ELSE IF s.echo = "requested" THEN {limit}
               ELSE IF s.echo = "zero" THEN {0}
               ELSE {s.P}]

Fetched(limit, offset, page) == [limit |-> limit, offset |-> offset, page |-> page]

IdleCollector ==
    [pc |-> "start", offset |-> 0, total |-> 0, results |-> <<>>, log |-> <<>>]

\* the sum of a set of at most one number
SumOf(a, b) == CHOOSE n \in 0..(2 * MaxItems + 4) : \E x \in a, y \in b : n = x + y

\* --- ScansAPI.list_scans ---
ScansFirstOffsetSkips(items) == Len(items) + 1

\* offset = len(items)
ScansFirstOffset(items) == Len(items)

ScansPageEmptyNever(page_items) == FALSE

\* if not page_items: break
ScansPageEmpty(page_items) == page_items = <<>>

\* server_offset + server_limit when the page has both (a limit of 0 counts
\* as absent), else offset += len(page_items)
ScansNextOffset(offset, page) ==
    IF page.offset # {} /\ page.limit # {} /\ page.limit # {0}
    THEN SumOf(page.offset, page.limit)
    ELSE offset + Len(page.items)

\* list_scans up to the while loop
ListScansStart(limit, first) ==
    LET items == first.items
        done == first.total <= Len(items)
    IN  [pc |-> IF done THEN "done" ELSE "loop",
         offset |-> IF done THEN 0 ELSE ScansFirstOffset(items),
         total |-> first.total,
         results |-> items,
         log |-> <<Fetched(limit, 0, first)>>]

\* one pass of the while loop of list_scans, and the test of the next pass
ListScansLoop(c, limit, page) ==
    IF ScansPageEmpty(page.items)
    THEN [c EXCEPT !.pc = "done",
                   !.log = Append(@, Fetched(limit, c.offset, page))]
    ELSE LET offset == ScansNextOffset(c.offset, page)
         IN  [c EXCEPT !.pc = IF offset < c.total THEN "loop" ELSE "done",
                       !.offset = offset,
                       !.results = @ \o page.items,
                       !.log = Append(@, Fetched(limit, c.offset, page))]

\* --- VulnsAPI.search_all ---
\* offset = len(items)
VulnsFirstOffset(items) == Len(items)

\* if not page_items: break
VulnsPageEmpty(page_items) == page_items = <<>>

VulnsNextOffsetByCount(offset, page) == offset + Len(page.items)

\* server_offset + server_limit when the page has both (a limit of 0 counts
\* as absent), else offset += len(page_items)
VulnsNextOffset(offset, page) ==
    IF page.offset # {} /\ page.limit # {} /\ page.limit # {0}
    THEN SumOf(page.offset, page.limit)
    ELSE offset + Len(page.items)

\* search_all up to the while loop
SearchAllStart(page_size, first) ==
    LET items == first.items
        done == first.total <= Len(items)
    IN  [pc |-> IF done THEN "done" ELSE "loop",
         offset |-> IF done THEN 0 ELSE VulnsFirstOffset(items),
         total |-> first.total,
         results |-> <<>> \o items,
         log |-> <<Fetched(page_size, 0, first)>>]

\* one pass of the while loop of search_all, and the test of the next pass
SearchAllLoop(c, page_size, page) ==
    IF VulnsPageEmpty(page.items)
    THEN [c EXCEPT !.pc = "done",
                   !.log = Append(@, Fetched(page_size, c.offset, page))]
    ELSE LET offset == VulnsNextOffset(c.offset, page)
         IN  [c EXCEPT !.pc = IF offset < c.total THEN "loop" ELSE "done",
                       !.offset = offset,
                       !.results = @ \o page.items,
                       !.log = Append(@, Fetched(page_size, c.offset, page))]

ScansFirst ==
    /\ coll["scans"].pc = "start"
    /\ coll' = [coll EXCEPT !["scans"] =
                   ListScansStart(source.L, Serve(source, source.L, 0))]
    /\ UNCHANGED source
    /\ UNCHANGED <<httpVars, cacheVars, appVars, sdkVars, pollVars, utilVars>>

ScansNext ==
    /\ coll["scans"].pc = "loop"
    /\ Len(coll["scans"].log) < MaxFetches
    /\ coll' = [coll EXCEPT !["scans"] =
                   ListScansLoop(@, source.L,
                                 Serve(source, source.L, coll["scans"].offset))]
    /\ UNCHANGED source
    /\ UNCHANGED <<httpVars, cacheVars, appVars, sdkVars, pollVars, utilVars>>

VulnsFirst ==
    /\ coll["vulns"].pc = "start"
    /\ coll' = [coll EXCEPT !["vulns"] =
                   SearchAllStart(source.L, Serve(source, source.L, 0))]
    /\ UNCHANGED source
    /\ UNCHANGED <<httpVars, cacheVars, appVars, sdkVars, pollVars, utilVars>>

VulnsNext ==
    /\ coll["vulns"].pc = "loop"
    /\ Len(coll["vulns"].log) < MaxFetches
    /\ coll' = [coll EXCEPT !["vulns"] =
                   SearchAllLoop(@, source.L,
                                 Serve(source, source.L, coll["vulns"].offset))]
    /\ UNCHANGED source
    /\ UNCHANGED <<httpVars, cacheVars, appVars, sdkVars, pollVars, utilVars>>

NextPages == ScansFirst \/ ScansNext \/ VulnsFirst \/ VulnsNext

\* ------------------------------------------------------------------------
\* The API wrapper methods over the transport: src/scans.py, src/vulns.py,
\* src/findings.py, src/pytenable_was/findings.py,
\* src/pytenable_was/folders.py, src/plugins.py, src/notes.py.
\* A call has the outcomes of its transport calls as input (outs[k] is what
\* self.http gives for the k-th id); a batch call handles one id per step.
\* TenableAPIError is the error class of the transport of
\* src/pytenable_was/http.py; the errors of src/http.py (APIError,
\* ThrottleError, ConnectionError, TimeoutError) are other classes.
\* ------------------------------------------------------------------------
MaxIds == 3

\* the ids of a batch call, in input order
BatchIds == <<"a", "b", "c", "d">>

BatchOps == {"get_multiple", "list_notes_multi", "change_owner_bulk"}

SingleOps == {"list_scans", "get_scan", "search", "search_all",
              "list_findings", "findings_list_findings", "folders_list"}

SdkUrl == "https://cloud.tenable.com/was/v2/scans"

\* what one call of self.http.get / post / patch gives
TransportOutcomes ==
    {Return(Json("dict")), Return(None), Return(Json("list(1)")),
     CoreAPIError(404, "ERR", SdkUrl), CoreAPIError(500, "[1]", SdkUrl),
     CoreThrottleError(SdkUrl),
     CoreNetworkError("Timeout", SdkUrl),
     CoreNetworkError("ConnectionError", SdkUrl),
     WasAPIError(404, "ERR"), WasTooManyRetries, WasRequestFailed("Timeout")}

\* the outcomes the ids of a batch call are tried with
BatchOutcomes ==
    {Return(Json("dict")), Return(None), CoreAPIError(404, "ERR", SdkUrl),
     CoreThrottleError(SdkUrl), WasAPIError(404, "ERR")}

IdleSdk ==
    [pc |-> "idle", op |-> "", n |-> 0, outs |-> <<>>, fetched |-> <<>>,
     results |-> <<>>, ret |-> NoOutcome]

IsDict(out) == out.result = "return" /\ out.value = Json("dict")

\* raise TenableAPIError(msg)
WrapFailed(msg) == Raise("TenableAPIError", {}, Text(msg), None, {})

\* an exception that is not an SDK error: None.get(...)
AttributeError == Raise("AttributeError", {}, Text("no attribute 'get'"), None, {})

\* ScansAPI._api_list_scans
ApiListScans(tout) ==
    IF tout.result = "raise" THEN WrapFailed("Failed calling GET /was/v2/scans")
    ELSE IF ~IsDict(tout) THEN WrapFailed("Malformed response from scans list API")
    ELSE tout

\* ScansAPI._api_get_scan
ApiGetScan(tout) ==
    IF tout.result = "raise" THEN WrapFailed("Failed retrieving scan")
    ELSE IF ~IsDict(tout) THEN WrapFailed("Malformed scan details response")
    ELSE tout

\* ScansAPI._api_patch_scan
ApiPatchScan(tout) ==
    IF tout.result = "raise" THEN WrapFailed("Failed modifying scan")
    ELSE IF ~IsDict(tout) THEN WrapFailed("Malformed PATCH response")
    ELSE tout

\* VulnsAPI._api_search
ApiSearch(tout) ==
    IF tout.result = "raise" THEN WrapFailed("Failed calling /was/v2/vulns/search")
    ELSE IF ~IsDict(tout) THEN WrapFailed("Malformed response from /vulns/search")
    ELSE tout

\* FindingsAPI._api_get_findings of src/pytenable_was/findings.py
ApiGetFindings(tout) ==
    IF tout.result = "raise" THEN WrapFailed("Failed retrieving findings for scan")
    ELSE tout

\* the items of a dict payload, a list
ItemsOfPayload(r) ==
    IF r.result = "raise" THEN r
    ELSE IF ~IsDict(r) THEN AttributeError
    ELSE Return(Json("list"))

\* the result of a wrapper method whose transport call gives tout
WrapperResult(op, tout) ==
    IF op \in {"list_scans"} THEN ItemsOfPayload(ApiListScans(tout))
    ELSE IF op = "get_scan" THEN ApiGetScan(tout)
    ELSE IF op \in {"search", "search_all"} THEN ItemsOfPayload(ApiSearch(tout))
    ELSE IF op = "list_findings" THEN tout
    ELSE IF op = "findings_list_findings" THEN ItemsOfPayload(ApiGetFindings(tout))
    ELSE IF tout.result = "raise"
         THEN WrapFailed("Failed to retrieve folders: " \o tout.message.val)
         ELSE ItemsOfPayload(tout)

\* a call of a wrapper method that makes one transport call
SdkWrapperCall(op, tout) ==
    /\ sdk.pc = "idle"
    /\ sdk' = [IdleSdk EXCEPT !.pc = "done", !.op = op, !.n = 1,
                              !.outs = <<tout>>, !.fetched = <<"a">>,
                              !.ret = WrapperResult(op, tout)]
    /\ UNCHANGED <<httpVars, cacheVars, appVars, pageVars, pollVars, utilVars>>

\* a batch call begins: results = []
SdkBatchCall(op, n, outs) ==
    /\ sdk.pc = "idle"
    /\ sdk' = [IdleSdk EXCEPT !.pc = IF n = 0 THEN "done" ELSE "loop",
                              !.op = op, !.n = n, !.outs = outs,
                              !.ret = IF n = 0 THEN Return(Json("list"))
                                      ELSE NoOutcome]
    /\ UNCHANGED <<httpVars, cacheVars, appVars, pageVars, pollVars, utilVars>>

Entry(id, status) == [id |-> id, status |-> status]

GetMultipleEntryDropsFailure(pid, tout) ==
    IF tout.result = "return" THEN <<Entry(pid, "plugin")>> ELSE <<>>

\* get_multiple: what one id adds to results when its fetch does not escape
GetMultipleEntry(pid, tout) ==
    IF tout.result = "return" THEN <<Entry(pid, "plugin")>>
    ELSE <<Entry(pid, "error")>>

\* the batch call after the pass of its loop for id k that ended with the
\* exception exc (NoOutcome: it did not) and added the entries add
AfterPass(k, add, exc) ==
    IF exc.result = "raise"
    THEN [sdk EXCEPT !.pc = "done", !.ret = exc,
                     !.fetched = Append(@, BatchIds[k])]
    ELSE [sdk EXCEPT !.pc = IF k = sdk.n THEN "done" ELSE "loop",
                     !.ret = IF k = sdk.n THEN Return(Json("list")) ELSE NoOutcome,
                     !.fetched = Append(@, BatchIds[k]),
                     !.results = @ \o add]

\* PluginsAPI.get_multiple: one pass of the loop
GetMultipleStep ==
    /\ sdk.pc = "loop"
    /\ sdk.op = "get_multiple"
    /\ LET k == Len(sdk.fetched) + 1
           tout == sdk.outs[k]
       IN  sdk' = IF tout.result = "raise" /\ tout.kind # "TenableAPIError"
                  THEN AfterPass(k, <<>>, tout)
                  ELSE AfterPass(k, GetMultipleEntry(BatchIds[k], tout), NoOutcome)
    /\ UNCHANGED <<httpVars, cacheVars, appVars, pageVars, pollVars, utilVars>>

\* NotesAPI.list_notes_multi over ids not in the cache: one pass of the loop
ListNotesMultiStep ==
    /\ sdk.pc = "loop"
    /\ sdk.op = "list_notes_multi"
    /\ LET k == Len(sdk.fetched) + 1
           notes == ItemsOfPayload(sdk.outs[k])
       IN  sdk' = IF notes.result = "raise"
                  THEN IF notes.kind = "TenableAPIError"
                       THEN AfterPass(k, <<>>, NoOutcome)
                       ELSE AfterPass(k, <<>>, notes)
                  ELSE AfterPass(k, <<Entry(BatchIds[k], "note")>>, NoOutcome)
    /\ UNCHANGED <<httpVars, cacheVars, appVars, pageVars, pollVars, utilVars>>

\* ScansAPI.change_owner_bulk: one pass of the loop
ChangeOwnerBulkStep ==
    /\ sdk.pc = "loop"
    /\ sdk.op = "change_owner_bulk"
    /\ LET k == Len(sdk.fetched) + 1
           resp == ApiPatchScan(sdk.outs[k])
       IN  sdk' = IF resp.result = "raise"
                  THEN AfterPass(k, <<>>, resp)
                  ELSE AfterPass(k, <<Entry(BatchIds[k], "ok")>>, NoOutcome)
    /\ UNCHANGED <<httpVars, cacheVars, appVars, pageVars, pollVars, utilVars>>

NextSdk ==
    \/ \E op \in SingleOps, tout \in TransportOutcomes : SdkWrapperCall(op, tout)
    \/ \E op \in BatchOps, n \in 0..MaxIds :
          \E outs \in [1..n -> BatchOutcomes] : SdkBatchCall(op, n, outs)
    \/ GetMultipleStep
    \/ ListNotesMultiStep
    \/ ChangeOwnerBulkStep

\* ------------------------------------------------------------------------
\* The poll-until-terminal operation (wait_until_complete).  Its code is not
\* part of the sources at hand; it is modelled from section 4.4 of the
\* specification: fetch the status; if it is terminal return the resource;
\* else fail with the timeout error when the elapsed time exceeds the
\* timeout; else sleep for the interval and repeat.  A status fetch is a
\* call of the transport and takes time.
\* ------------------------------------------------------------------------
TerminalStatuses == {"completed", "failed", "cancelled"}

\* the statuses the remote answers with ("paused" is not known to the SDK)
PollStatuses == {"running", "paused", "completed", "failed"}

Intervals == {1, 2}

Timeouts == {2, 3}

\* the seconds a status fetch takes
Durations == {0, 1}

IdlePoll ==
    [pc |-> "idle", interval |-> 0, timeout |-> 0, start |-> 0,
     statuses |-> <<>>, sleeps |-> 0, took |-> 0, ret |-> NoOutcome]

IsTerminalAnyButRunning(status) == status # "running"

IsTerminal(status) == status \in TerminalStatuses

PollTimedOutLate(elapsed, timeout) == elapsed > timeout + 2

PollTimedOut(elapsed, timeout) == elapsed > timeout

PollTimeoutError ==
    Raise("TimeoutError", {}, Text("Timed out waiting for scan"), None, {})

\* the call begins: start = time.time()
WaitUntilComplete(interval, timeout) ==
    /\ poll.pc = "idle"
    /\ poll' = [IdlePoll EXCEPT !.pc = "fetch", !.interval = interval,
                                !.timeout = timeout, !.start = now]
    /\ UNCHANGED <<httpVars, cacheVars, appVars, pageVars, sdkVars, utilVars>>

\* one status fetch, which takes d seconds, and the tests that follow it
PollFetch(status, d) ==
    /\ poll.pc = "fetch"
    /\ now' = now + d
    /\ IF IsTerminal(status)
       THEN poll' = [poll EXCEPT !.pc = "done", !.statuses = Append(@, status),
                                 !.took = d, !.ret = Return(Json("dict"))]
       ELSE IF PollTimedOut(now' - poll.start, poll.timeout)
       THEN poll' = [poll EXCEPT !.pc = "done", !.statuses = Append(@, status),
                                 !.took = d, !.ret = PollTimeoutError]
       ELSE poll' = [poll EXCEPT !.pc = "sleep", !.statuses = Append(@, status),
                                 !.took = d]
    /\ UNCHANGED <<ops, store, lastOp, hist>>
    /\ UNCHANGED <<httpVars, appVars, pageVars, sdkVars, utilVars>>

\* time.sleep(interval)
PollSleep ==
    /\ poll.pc = "sleep"
    /\ now' = now + poll.interval
    /\ poll' = [poll EXCEPT !.pc = "fetch", !.sleeps = @ + 1]
    /\ UNCHANGED <<ops, store, lastOp, hist>>
    /\ UNCHANGED <<httpVars, appVars, pageVars, sdkVars, utilVars>>

NextPoll ==
    \/ \E interval \in Intervals, timeout \in Timeouts :
          WaitUntilComplete(interval, timeout)
    \/ \E status \in PollStatuses, d \in Durations : PollFetch(status, d)
    \/ PollSleep

\* ------------------------------------------------------------------------
\* group_by_severity (src/utils.py and src/pytenable_was/utils.py)
\* ------------------------------------------------------------------------
MaxFindings == 3

UtilsVersions == {"core", "was"}

\* the keys of SEVERITY_ORDER
SEVERITY_ORDER == {"critical", "high", "medium", "low", "info"}

\* the values of a finding's severity: labels in several spellings, a label
\* that is no severity, the label "unknown", and None (Finding.severity is
\* Optional[str])
Severities == {Text("critical"), Text("high"), Text("HIGH"), Text("Low"),
               Text("weird"), Text("unknown"), None}

\* a finding is a dict with the key 'severity' or an object with the
\* attribute .severity
Shapes == {"dict", "object"}

Findings == [shape : Shapes, severity : Severities]

\* str.lower() on the labels above and on str(None)
Lower(s) ==
    CASE s = "HIGH" -> "high"
      [] s = "Low" -> "low"
      [] s = "None" -> "none"
      [] OTHER -> s

\* str(x)
Str(v) == IF v = None THEN "None" ELSE v.val

\* groups = {k: [] for k in SEVERITY_ORDER}
EmptyGroups == [k \in SEVERITY_ORDER |-> <<>>]

IdleGroup ==
    [pc |-> "idle", version |-> "", findings |-> <<>>, groups |-> EmptyGroups,
     raised |-> ""]

\* f.severity if hasattr(f, "severity") else f.get("severity", "")
SeverityValue(f) == f.severity

\* groups.setdefault("unknown", []).append(f); a finding is identified by
\* its position i in the input
SetDefaultAppend(groups, i) ==
    IF "unknown" \in DOMAIN groups
    THEN [groups EXCEPT !["unknown"] = Append(@, i)]
    ELSE [k \in DOMAIN groups \cup {"unknown"} |->
             IF k = "unknown" THEN <<i>> ELSE groups[k]]

\* the body of the loop of src/utils.py
CoreGroupStep(groups, i, f) ==
    LET sev == Lower(SeverityValue(f).val)
    IN  IF sev \in DOMAIN groups
        THEN [groups EXCEPT ![sev] = Append(@, i)]
        ELSE SetDefaultAppend(groups, i)

\* the body of the loop of src/pytenable_was/utils.py
WasGroupStep(groups, i, f) ==
    LET sev == Lower(Str(SeverityValue(f)))
    IN  IF sev \in DOMAIN groups
        THEN [groups EXCEPT ![sev] = Append(@, i)]
        ELSE [groups EXCEPT !["unknown"] = Append(@, i)]

RECURSIVE GroupLoop(_, _, _, _)
\* for f in findings; None.lower() raises AttributeError in src/utils.py
GroupLoop(version, findings, i, groups) ==
    IF i > Len(findings)
    THEN [groups |-> groups, raised |-> ""]
    ELSE IF version = "core"
    THEN IF SeverityValue(findings[i]) = None
         THEN [groups |-> groups, raised |-> "AttributeError"]
         ELSE GroupLoop(version, findings, i + 1,
                        CoreGroupStep(groups, i, findings[i]))
    ELSE GroupLoop(version, findings, i + 1,
                   WasGroupStep(groups, i, findings[i]))

group_by_severity(version, findings) ==
    IF version = "core"
    THEN GroupLoop(version, findings, 1, EmptyGroups)
    ELSE GroupLoop(version, findings, 1, ("unknown" :> <<>>) @@ EmptyGroups)

FindingLists == UNION {[1..n -> Findings] : n \in 0..MaxFindings}

GroupBySeverityCall(version, findings) ==
    /\ grp.pc = "idle"
    /\ LET r == group_by_severity(version, findings)
       IN  grp' = [pc |-> "done", version |-> version, findings |-> findings,
                   groups |-> r.groups, raised |-> r.raised]
    /\ UNCHANGED <<httpVars, cacheVars, appVars, pageVars, sdkVars, pollVars>>

NextUtils ==
    \E version \in UtilsVersions, findings \in FindingLists :
        GroupBySeverityCall(version, findings)

\* ------------------------------------------------------------------------
\* Specifications
\* ------------------------------------------------------------------------
\* the clients after construction, the cache not in use
InitHttp ==
    /\ client \in Clients
    /\ \E ak \in AccessKeys, sk \in SecretKeys :
          headers = TenableWAS_headers(ak, sk)
    /\ api_key \in ApiKeys
    /\ pc = "idle"
    /\ calls = 0
    /\ method = "GET"
    /\ url = ""
    /\ attempt = 0
    /\ retries = 0
    /\ backoff = 0
    /\ sent = <<>>
    /\ recv = <<>>
    /\ last = NoReply
    /\ slept = <<>>
    /\ outcome = NoOutcome
    /\ seen = {}
    /\ now = 0
    /\ ops = 0
    /\ store = [n \in InitialNamespaces |-> EmptyDict]
    /\ lastOp = Op("init", "", "", "ok", "")
    /\ hist = EmptyDict
    /\ lock = "free"
    /\ thr = [t \in Threads |-> IdleThread]
    /\ started = 0
    /\ listed = FALSE
    /\ gone = {}
    /\ source = NoSource
    /\ coll = [c \in Collectors |-> IdleCollector]
    /\ sdk = IdleSdk
    /\ poll = IdlePoll
    /\ grp = IdleGroup

\* the cache after construction, no request in progress
InitCache ==
    /\ client = "core"
    /\ headers = TenableWAS_headers("AK", "SK")
    /\ api_key = "KEY"
    /\ pc = "idle"
    /\ calls = 0
    /\ method = "GET"
    /\ url = ""
    /\ attempt = 0
    /\ retries = 0
    /\ backoff = 0
    /\ sent = <<>>
    /\ recv = <<>>
    /\ last = NoReply
    /\ slept = <<>>
    /\ outcome = NoOutcome
    /\ seen = {}
    /\ now = 0
    /\ ops = 0
    /\ store = [n \in InitialNamespaces |-> EmptyDict]
    /\ lastOp = Op("init", "", "", "ok", "")
    /\ hist = EmptyDict
    /\ lock = "free"
    /\ thr = [t \in Threads |-> IdleThread]
    /\ started = 0
    /\ listed = FALSE
    /\ gone = {}
    /\ source = NoSource
    /\ coll = [c \in Collectors |-> IdleCollector]
    /\ sdk = IdleSdk
    /\ poll = IdlePoll
    /\ grp = IdleGroup

SpecHttp == InitHttp /\ [][NextHttp]_vars

SpecCache == InitCache /\ [][NextCache]_vars

\* the wrappers over a new cache, no call begun
InitApps ==
    /\ client = "core"
    /\ headers = TenableWAS_headers("AK", "SK")
    /\ api_key = "KEY"
    /\ pc = "idle"
    /\ calls = 0
    /\ method = "GET"
    /\ url = ""
    /\ attempt = 0
    /\ retries = 0
    /\ backoff = 0
    /\ sent = <<>>
    /\ recv = <<>>
    /\ last = NoReply
    /\ slept = <<>>
    /\ outcome = NoOutcome
    /\ seen = {}
    /\ now = 0
    /\ ops = 0
    /\ store = [n \in InitialNamespaces |-> EmptyDict]
    /\ lastOp = Op("init", "", "", "ok", "")
    /\ hist = EmptyDict
    /\ lock = "free"
    /\ thr = [t \in Threads |-> IdleThread]
    /\ started = 0
    /\ listed = FALSE
    /\ gone = {}
    /\ source = NoSource
    /\ coll = [c \in Collectors |-> IdleCollector]
    /\ sdk = IdleSdk
    /\ poll = IdlePoll
    /\ grp = IdleGroup

SpecApps == InitApps /\ [][NextApps]_vars

\* no wrapper call begun yet, the cache empty, nothing deleted
InitDelete ==
    /\ client = "core"
    /\ headers = TenableWAS_headers("AK", "SK")
    /\ api_key = "KEY"
    /\ pc = "idle"
    /\ calls = 0
    /\ method = "GET"
    /\ url = ""
    /\ attempt = 0
    /\ retries = 0
    /\ backoff = 0
    /\ sent = <<>>
    /\ recv = <<>>
    /\ last = NoReply
    /\ slept = <<>>
    /\ outcome = NoOutcome
    /\ seen = {}
    /\ now = 0
    /\ ops = 0
    /\ store = [n \in InitialNamespaces |-> EmptyDict]
    /\ lastOp = Op("init", "", "", "ok", "")
    /\ hist = EmptyDict
    /\ lock = "free"
    /\ thr = [t \in Threads |-> IdleThread]
    /\ started = 0
    /\ listed = FALSE
    /\ gone = {}
    /\ source = NoSource
    /\ coll = [c \in Collectors |-> IdleCollector]
    /\ sdk = IdleSdk
    /\ poll = IdlePoll
    /\ grp = IdleGroup

SpecDelete == InitDelete /\ [][NextDelete]_vars

\* a page source, and the two collectors about to be called
InitPages ==
    /\ client = "core"
    /\ headers = TenableWAS_headers("AK", "SK")
    /\ api_key = "KEY"
    /\ pc = "idle"
    /\ calls = 0
    /\ method = "GET"
    /\ url = ""
    /\ attempt = 0
    /\ retries = 0
    /\ backoff = 0
    /\ sent = <<>>
    /\ recv = <<>>
    /\ last = NoReply
    /\ slept = <<>>
    /\ outcome = NoOutcome
    /\ seen = {}
    /\ now = 0
    /\ ops = 0
    /\ store = [n \in InitialNamespaces |-> EmptyDict]
    /\ lastOp = Op("init", "", "", "ok", "")
    /\ hist = EmptyDict
    /\ lock = "free"
    /\ thr = [t \in Threads |-> IdleThread]
    /\ started = 0
    /\ listed = FALSE
    /\ gone = {}
    /\ source \in Sources
    /\ coll = [c \in Collectors |-> IdleCollector]
    /\ sdk = IdleSdk
    /\ poll = IdlePoll
    /\ grp = IdleGroup

SpecPages == InitPages /\ [][NextPages]_vars

\* no wrapper method called yet
InitSdk ==
    /\ client = "core"
    /\ headers = TenableWAS_headers("AK", "SK")
    /\ api_key = "KEY"
    /\ pc = "idle"
    /\ calls = 0
    /\ method = "GET"
    /\ url = ""
    /\ attempt = 0
    /\ retries = 0
    /\ backoff = 0
    /\ sent = <<>>
    /\ recv = <<>>
    /\ last = NoReply
    /\ slept = <<>>
    /\ outcome = NoOutcome
    /\ seen = {}
    /\ now = 0
    /\ ops = 0
    /\ store = [n \in InitialNamespaces |-> EmptyDict]
    /\ lastOp = Op("init", "", "", "ok", "")
    /\ hist = EmptyDict
    /\ lock = "free"
    /\ thr = [t \in Threads |-> IdleThread]
    /\ started = 0
    /\ listed = FALSE
    /\ gone = {}
    /\ source = NoSource
    /\ coll = [c \in Collectors |-> IdleCollector]
    /\ sdk = IdleSdk
    /\ poll = IdlePoll
    /\ grp = IdleGroup

SpecSdk == InitSdk /\ [][NextSdk]_vars

\* no wait begun yet
InitPoll ==
    /\ client = "core"
    /\ headers = TenableWAS_headers("AK", "SK")
    /\ api_key = "KEY"
    /\ pc = "idle"
    /\ calls = 0
    /\ method = "GET"
    /\ url = ""
    /\ attempt = 0
    /\ retries = 0
    /\ backoff = 0
    /\ sent = <<>>
    /\ recv = <<>>
    /\ last = NoReply
    /\ slept = <<>>
    /\ outcome = NoOutcome
    /\ seen = {}
    /\ now = 0
    /\ ops = 0
    /\ store = [n \in InitialNamespaces |-> EmptyDict]
    /\ lastOp = Op("init", "", "", "ok", "")
    /\ hist = EmptyDict
    /\ lock = "free"
    /\ thr = [t \in Threads |-> IdleThread]
    /\ started = 0
    /\ listed = FALSE
    /\ gone = {}
    /\ source = NoSource
    /\ coll = [c \in Collectors |-> IdleCollector]
    /\ sdk = IdleSdk
    /\ poll = IdlePoll
    /\ grp = IdleGroup

SpecPoll == InitPoll /\ [][NextPoll]_vars

\* group_by_severity not called yet
InitUtils ==
    /\ client = "core"
    /\ headers = TenableWAS_headers("AK", "SK")
    /\ api_key = "KEY"
    /\ pc = "idle"
    /\ calls = 0
    /\ method = "GET"
    /\ url = ""
    /\ attempt = 0
    /\ retries = 0
    /\ backoff = 0
    /\ sent = <<>>
    /\ recv = <<>>
    /\ last = NoReply
    /\ slept = <<>>
    /\ outcome = NoOutcome
    /\ seen = {}
    /\ now = 0
    /\ ops = 0
    /\ store = [n \in InitialNamespaces |-> EmptyDict]
    /\ lastOp = Op("init", "", "", "ok", "")
    /\ hist = EmptyDict
    /\ lock = "free"
    /\ thr = [t \in Threads |-> IdleThread]
    /\ started = 0
    /\ listed = FALSE
    /\ gone = {}
    /\ source = NoSource
    /\ coll = [c \in Collectors |-> IdleCollector]
    /\ sdk = IdleSdk
    /\ poll = IdlePoll
    /\ grp = IdleGroup

SpecUtils == InitUtils /\ [][NextUtils]_vars

\* ------------------------------------------------------------------------
\* Properties of the transports (checked under SpecHttp)
\* ------------------------------------------------------------------------
Is429(r) == r.type = "response" /\ r.status = 429

All429 == \A i \in 1..Len(recv) : Is429(recv[i])

\* the last reply is a response with a status >= 400 other than 429
EndedOnErrorStatus ==
    pc = "done" /\ last.type = "response" /\ last.status >= 400 /\ last.status # 429

\* the last reply is a response with a status below 400
EndedOnSuccessStatus ==
    pc = "done" /\ last.type = "response" /\ last.status < 400

\* C1: in the HTTPClient of src/http.py, against a server that answers 429 to
\* every attempt, one logical request issues exactly 5 HTTP requests, no more
\* and no fewer, and then fails with ThrottleError.
C1_RetryBound ==
    (client = "core" /\ pc # "idle" /\ All429) =>
        /\ Len(sent) = Len(recv)
        /\ Len(sent) <= 5
        /\ (pc = "done" <=> Len(sent) = 5)
        /\ (pc = "done" => outcome.result = "raise" /\ outcome.kind = "ThrottleError")

C1_Witness ==
    /\ client = "core"
    /\ pc = "done"
    /\ Len(recv) = 5
    /\ All429
    /\ outcome.kind = "ThrottleError"

\* C2 as stated: in the HTTPClient of src/pytenable_was/http.py one logical
\* request never issues more than 5 HTTP requests, and against a server that
\* always answers 429 it makes exactly 5 attempts before it fails.
C2_Original ==
    client = "was" =>
        /\ Len(sent) <= 5
        /\ (pc = "done" /\ All429 /\ Len(recv) > 0 => Len(sent) = 5)

\* C2 amended: in the HTTPClient of src/pytenable_was/http.py one logical
\* request never issues more than 6 HTTP requests (the first attempt and 5
\* retries), and against a server that always answers 429 it makes exactly 6
\* attempts before it fails with the too-many-retries TenableAPIError.
C2_RetryBound ==
    client = "was" =>
        /\ Len(sent) <= 6
        /\ (pc # "idle" /\ All429) =>
              /\ Len(sent) = Len(recv)
              /\ (pc = "done" <=> Len(sent) = 6)
              /\ (pc = "done" => outcome = WasTooManyRetries)

C2_Witness ==
    /\ client = "was"
    /\ pc = "done"
    /\ Len(sent) = 6
    /\ All429
    /\ outcome.kind = "TenableAPIError"

\* C3: attempt i+1 is issued only if attempt i received 429; one reply that
\* is a status >= 400 other than 429, a network failure or a timeout ends the
\* request after that attempt with an error, for every method and client.
C3_OnlyRetryOn429 ==
    /\ Len(sent) = Len(recv)
    /\ \A i \in 1..Len(recv) : i < Len(recv) => Is429(recv[i])
    /\ pc = "loop" => All429
    /\ (Len(recv) > 0 /\ ~Is429(recv[Len(recv)])
          /\ (recv[Len(recv)].type # "response" \/ recv[Len(recv)].status >= 400))
       => (pc = "done" /\ outcome.result = "raise")

C3_Witness ==
    /\ method = "POST"
    /\ pc = "done"
    /\ Len(sent) = 2
    /\ Is429(recv[1])
    /\ recv[2].type = "response" /\ recv[2].status = 500
    /\ outcome.result = "raise"

\* C4: within one logical request the k-th wait (k = 0, 1, 2, ...) is
\* base * 2^k seconds, base = 1 in src/http.py and base = 2 in
\* src/pytenable_was/http.py: every delay is double the previous one and the
\* sequence starts again at base in every new logical request.
C4_Backoff ==
    LET base == IF client = "core" THEN 1 ELSE 2
    IN  /\ \A k \in 1..Len(slept) : slept[k] = base * 2 ^ (k - 1)
        /\ \A k \in 2..Len(slept) : slept[k] = 2 * slept[k - 1]
        /\ Len(slept) > 0 => slept[1] = base

C4_Witness == calls = 2 /\ Len(slept) = 4 /\ slept[4] \in {8, 16}

C6_ErrorCarries ==
    EndedOnErrorStatus =>
        /\ outcome.result = "raise"
        /\ outcome.status = {last.status}
        /\ (IF last.text \in {"[1]", "null"} THEN JsonValue(last.text)
            ELSE Text(last.text)) \in {outcome.message, outcome.payload}
        /\ outcome.url = {url}

\* C7 as stated: a response with a status below 400 and an empty body makes
\* every HTTPClient return None, for every such status; otherwise the
\* decoded JSON value is returned.
C7_Original ==
    EndedOnSuccessStatus =>
        IF last.text = "" THEN outcome = Return(None)
        ELSE (last.text \in {"[1]", "null"} => outcome = Return(JsonValue(last.text)))

\* C7 amended: the HTTPClient of src/http.py returns None for every status
\* below 400 with an empty or whitespace-only body and the decoded JSON value
\* for a body that parses; the HTTPClient of src/pytenable_was/http.py returns
\* None for status 204 only (whatever the body), the decoded JSON value for
\* every other status below 400 whose body parses, and raises TenableAPIError
\* when that body does not parse, an empty body included.
C7_EmptyBody ==
    EndedOnSuccessStatus =>
        IF client = "core"
        THEN IF last.text \in {"", " "} THEN outcome = Return(None)
             ELSE (last.text \in {"[1]", "null"}
                      => outcome = Return(JsonValue(last.text)))
        ELSE IF last.status = 204 THEN outcome = Return(None)
             ELSE IF last.text \in {"[1]", "null"}
                  THEN outcome = Return(JsonValue(last.text))
                  ELSE outcome.result = "raise" /\ outcome.kind = "TenableAPIError"

C7_Witness ==
    /\ client = "core"
    /\ EndedOnSuccessStatus
    /\ last.status = 200
    /\ last.text = ""
    /\ Len(sent) = 2
    /\ outcome = Return(None)

\* C8: every HTTP attempt, the first and every retry after a 429, carries
\* the authentication header (X-ApiKeys with the access key and the secret
\* key, or X-API-Key) with Accept and Content-Type application/json, and the
\* headers are the same on every attempt of a request.
C8_Headers ==
    \A i \in 1..Len(sent) :
        LET h == sent[i].headers
        IN  /\ {"Accept", "Content-Type"} \subseteq DOMAIN h
            /\ h["Accept"] = "application/json"
            /\ h["Content-Type"] = "application/json"
            /\ \/ /\ "X-ApiKeys" \in DOMAIN h
                  /\ \E ak \in AccessKeys, sk \in SecretKeys :
                        h["X-ApiKeys"] = "accessKey=" \o ak \o "; secretKey=" \o sk
               \/ /\ "X-API-Key" \in DOMAIN h
                  /\ h["X-API-Key"] = api_key
            /\ h = sent[1].headers

C8_Witness ==
    /\ client = "core"
    /\ Len(sent) = 3
    /\ "X-ApiKeys" \in DOMAIN sent[3].headers
    /\ Is429(recv[2])

\* ------------------------------------------------------------------------
\* Properties of the cache (checked under SpecCache)
\* ------------------------------------------------------------------------
\* C9: an entry stored with ttl = T at time c is returned by get at every
\* time t with t - c <= T and is a miss at every time t with t - c > T; an
\* entry stored with ttl = None is returned at every later time.
C9_TTLBoundary ==
    (lastOp.op = "get" /\ <<lastOp.ns, lastOp.key>> \in DOMAIN hist) =>
        LET h == hist[<<lastOp.ns, lastOp.key>>]
        IN  IF h.ttl = {} \/ \E T \in h.ttl : now - h.c <= T
            THEN lastOp.result = "hit" /\ lastOp.value = h.value
            ELSE lastOp.result \in {"miss", "expired"}

C9_Witness ==
    /\ lastOp.op = "get"
    /\ lastOp.result = "expired"
    /\ <<lastOp.ns, lastOp.key>> \in DOMAIN hist
    /\ hist[<<lastOp.ns, lastOp.key>>].ttl = {1}
    /\ now - hist[<<lastOp.ns, lastOp.key>>].c = 2

\* C10: a set, delete, clear_namespace, warm or get on namespace A leaves
\* every entry of every other namespace B unchanged.
C10_NamespaceIsolation ==
    [][\A b \in DOMAIN store :
          (lastOp'.op \in {"get", "set", "delete", "clear_namespace", "warm"}
             /\ b # lastOp'.ns)
          => (b \in DOMAIN store' /\ store'[b] = store[b])]_vars

C10_Witness ==
    /\ lastOp.op = "clear_namespace"
    /\ lastOp.ns = "scans"
    /\ DOMAIN store["scans"] = {}
    /\ "x" \in DOMAIN store["apps"]

\* C11: a get on a key whose entry has expired fails with the not-found
\* error and removes exactly that one entry from its namespace; an entry is
\* never removed by the passing of time or by a call on another key: it
\* stays, unchanged, until such a lookup, a delete of the key, a clear of
\* its namespace or of the cache, or a write (set, warm) that overwrites it.
C11_LazyEviction ==
    [][/\ \A ns \in DOMAIN store : \A k \in DOMAIN store[ns] :
            \/ (k \in KeysOf(store', ns) /\ store'[ns][k] = store[ns][k])
            \/ (lastOp'.op = "get" /\ lastOp'.ns = ns /\ lastOp'.key = k
                  /\ lastOp'.result = "expired"
                  /\ store[ns][k].ttl # {}
                  /\ \A T \in store[ns][k].ttl : now - store[ns][k].timestamp > T)
            \/ (lastOp'.op = "delete" /\ lastOp'.ns = ns /\ lastOp'.key = k)
            \/ (lastOp'.op = "clear_namespace" /\ lastOp'.ns = ns)
            \/ lastOp'.op = "clear_all"
            \/ (lastOp'.op = "set" /\ lastOp'.ns = ns /\ lastOp'.key = k)
            \/ (lastOp'.op = "warm" /\ lastOp'.ns = ns /\ lastOp'.result = "ok")
       /\ (lastOp'.op = "get" /\ lastOp'.result = "expired") =>
            /\ lastOp'.ns \in DOMAIN store
            /\ lastOp'.key \in DOMAIN store[lastOp'.ns]
            /\ store' = [store EXCEPT ![lastOp'.ns] =
                            [k \in DOMAIN store[lastOp'.ns] \ {lastOp'.key} |->
                                store[lastOp'.ns][k]]]
       /\ (lastOp'.op = "get" /\ lastOp'.result # "expired") => store' = store
      ]_vars

\* an expired entry still in the store next to a live one, and the get on the
\* expired key has just removed it
C11_Witness ==
    /\ lastOp.op = "get"
    /\ lastOp.result = "expired"
    /\ lastOp.ns = "apps"
    /\ lastOp.key = "x"
    /\ DOMAIN store["apps"] = {"y"}
    /\ <<"apps", "x">> \in DOMAIN hist

\* C12: set(namespace, key, v2, ttl2) always succeeds and replaces the whole
\* entry of the key: the entry is (v2, time of this set, ttl2) whatever was
\* there before, so a get that follows at once returns v2 and expiry is
\* measured from this set with ttl2 only.
C12_SetReplaces ==
    /\ lastOp.op = "set" =>
          /\ lastOp.result = "ok"
          /\ lastOp.key \in KeysOf(store, lastOp.ns)
          /\ <<lastOp.ns, lastOp.key>> \in DOMAIN hist
          /\ store[lastOp.ns][lastOp.key] =
                [value |-> hist[<<lastOp.ns, lastOp.key>>].value,
                 timestamp |-> now,
                 ttl |-> hist[<<lastOp.ns, lastOp.key>>].ttl]
          /\ hist[<<lastOp.ns, lastOp.key>>].c = now
    /\ \A p \in DOMAIN hist :
          p[2] \in KeysOf(store, p[1]) =>
              store[p[1]][p[2]] =
                  [value |-> hist[p].value, timestamp |-> hist[p].c,
                   ttl |-> hist[p].ttl]

\* the second write of a behaviour is a set at time 2 of v2 with no ttl on the
\* only key the cache holds
C12_Witness ==
    /\ lastOp.op = "set"
    /\ lastOp.ns = "scans"
    /\ lastOp.key = "x"
    /\ ops = 2
    /\ now = 2
    /\ store["scans"]["x"] = [value |-> "v2", timestamp |-> 2, ttl |-> {}]
    /\ \A ns \in DOMAIN store : DOMAIN store[ns] \subseteq {"x"}

\* C13: every write into a namespace that does not exist yet, through set and
\* through warm alike, creates the namespace and stores the entries; no write
\* fails because the namespace was never written before.
C13_LazyNamespace ==
    lastOp.op \in {"set", "warm"} =>
        /\ lastOp.result = "ok"
        /\ lastOp.op = "set" => lastOp.key \in KeysOf(store, lastOp.ns)

\* thread t is reading or writing the contents of the cache
Accessing(t) == thr[t].pc \in {"in_get", "in_set", "iter"}

\* C14: every read or write of the contents of the cache, by the cache's
\* methods and by the wrappers (list_all among them), happens while the
\* thread holds the cache's lock, so that no thread reads or iterates a
\* namespace while another thread is modifying it.
C14_MutualExclusion == \A t \in Threads : Accessing(t) => lock = t

\* C15: a call of get_app or list_notes with use_cache=True whose cache
\* lookup misses (key absent or entry expired) makes exactly one remote call
\* and ends with the result of that call, never with the cache-miss error;
\* a call whose lookup hits a live entry makes no remote call and returns.
C15_MissIsRecovered ==
    \A t \in Threads :
        (thr[t].op \in {"get_app", "list_notes"} /\ thr[t].use_cache) =>
            /\ thr[t].look = "hit" =>
                  /\ thr[t].fetches = 0
                  /\ thr[t].pc = "done"
                  /\ thr[t].ret.result = "return"
            /\ thr[t].look \in {"miss", "expired"} =>
                  /\ thr[t].pc \in {"fetch", "set", "in_set", "done"}
                  /\ thr[t].fetches = (IF thr[t].pc = "fetch" THEN 0 ELSE 1)
                  /\ thr[t].pc = "done" =>
                        /\ thr[t].ret = thr[t].got
                        /\ thr[t].ret.kind # "CacheKeyError"
            /\ thr[t].pc = "done" => thr[t].look \in {"hit", "miss", "expired"}

\* get_app found its entry expired, fetched once and returned the fetched
\* application
C15_Witness ==
    \E t \in Threads :
        /\ thr[t].op = "get_app"
        /\ thr[t].use_cache
        /\ thr[t].look = "expired"
        /\ thr[t].pc = "done"
        /\ thr[t].fetches = 1
        /\ thr[t].ret = Returned(PyModel("x", "v2"))

\* the source serves every item, reports the true total and echoes nothing
\* or the offset asked and the page size it used
Consistent(s) == s.total = s.T /\ s.echo \in {"none", "used"}

\* ceil(T / P), one request when there is nothing
FetchesNeeded(s) == IF s.T = 0 THEN 1 ELSE (s.T + s.P - 1) \div s.P

\* C16: against a consistent source of T items served P at a time, list_scans
\* and search_all return exactly the items 1..T in server order, none dropped
\* or duplicated, after exactly ceil(T/P) page requests (one when T = 0).
C16_CollectsAll ==
    \A c \in Collectors :
        Consistent(source) =>
            /\ coll[c].pc = "done" =>
                  /\ coll[c].results = [i \in 1..source.T |-> i]
                  /\ Len(coll[c].log) = FetchesNeeded(source)
            /\ coll[c].pc = "loop" => Len(coll[c].log) < FetchesNeeded(source)

\* 5 items served 2 at a time: list_scans is done after 3 requests
C16_Witness ==
    /\ Consistent(source)
    /\ source.T = 5
    /\ source.P = 2
    /\ source.echo = "used"
    /\ coll["scans"].pc = "done"
    /\ Len(coll["scans"].log) = 3
    /\ coll["scans"].results = <<1, 2, 3, 4, 5>>

\* C17: whatever the server answers, echoed offset and limit included, the
\* offset of list_scans and search_all strictly increases after every
\* non-empty page and no offset is requested twice.
C17_OffsetIncreases ==
    \A c \in Collectors :
        /\ \A i, j \in DOMAIN coll[c].log :
              i < j => coll[c].log[i].offset < coll[c].log[j].offset
        /\ coll[c].log # <<>> /\ coll[c].log[Len(coll[c].log)].page.items # <<>>
              /\ coll[c].pc = "loop"
              => coll[c].offset > coll[c].log[Len(coll[c].log)].offset

RECURSIVE ItemsOf(_, _)
\* the items of the first n pages of a log, concatenated
ItemsOf(log, n) == IF n = 0 THEN <<>> ELSE ItemsOf(log, n - 1) \o log[n].page.items

\* C18: when a page after the first has no items, list_scans and search_all
\* stop at once: that request is the last one, and the result is exactly
\* the items of the pages before it.
C18_EmptyPageStops ==
    \A c \in Collectors :
        \A i \in 2..Len(coll[c].log) :
            coll[c].log[i].page.items = <<>> =>
                /\ coll[c].log[i].offset < coll[c].total
                /\ i = Len(coll[c].log)
                /\ coll[c].pc = "done"
                /\ coll[c].results = ItemsOf(coll[c].log, i - 1)

\* the server reports one item more than it has: the request after the last
\* item got an empty page and search_all stopped with the 3 items
C18_Witness ==
    /\ source.T = 3
    /\ source.total = 4
    /\ source.P = 1
    /\ coll["vulns"].pc = "done"
    /\ Len(coll["vulns"].log) = 4
    /\ coll["vulns"].log[4].page.items = <<>>
    /\ coll["vulns"].results = <<1, 2, 3>>

\* the offset after a page, as the page reports it
Reported(f) ==
    IF f.page.offset # {} /\ f.page.limit # {}
    THEN SumOf(f.page.offset, f.page.limit)
    ELSE f.offset + Len(f.page.items)

\* the offset the collector goes on with after request i of its log
OffsetAfter(c, i) ==
    IF i < Len(coll[c].log) THEN coll[c].log[i + 1].offset ELSE coll[c].offset

\* request i of the log of c is followed by a next offset
GoesOn(c, i) == i < Len(coll[c].log) \/ (i = Len(coll[c].log) /\ coll[c].pc = "loop")

\* C19: after every page, the first included, the next offset is
\* the reported offset + limit when the page reports both, else the previous
\* offset plus the number of items of the page.
C19_NextOffset ==
    \A c \in Collectors : \A i \in DOMAIN coll[c].log :
        GoesOn(c, i) => OffsetAfter(c, i) = Reported(coll[c].log[i])

\* C20: against the same source, list_scans(limit=L) and
\* search_all(page_size=L) make the same requests with the same answers,
\* and after the same number of requests they are at the same point with
\* the same offset and the same results.
C20_SameCollector ==
    /\ \A i \in DOMAIN coll["scans"].log \cap DOMAIN coll["vulns"].log :
          coll["scans"].log[i] = coll["vulns"].log[i]
    /\ Len(coll["scans"].log) = Len(coll["vulns"].log) =>
          coll["scans"] = coll["vulns"]
    /\ coll["scans"].pc = "done" =>
          Len(coll["vulns"].log) <= Len(coll["scans"].log)
    /\ coll["vulns"].pc = "done" =>
          Len(coll["scans"].log) <= Len(coll["vulns"].log)

\* both are done after 3 requests with the same 4 items, the server echoing
\* the limit asked
C20_Witness ==
    /\ source.echo = "requested"
    /\ coll["scans"].pc = "done"
    /\ coll["vulns"].pc = "done"
    /\ Len(coll["scans"].log) = 3
    /\ Len(coll["scans"].results) = 4
    /\ coll["scans"].results = coll["vulns"].results

\* ------------------------------------------------------------------------
\* The wrapper methods
\* ------------------------------------------------------------------------
\* the call is a batch call in which exactly id f fails and the others succeed
OneFails(f) ==
    /\ sdk.op \in BatchOps
    /\ f \in 1..sdk.n
    /\ sdk.outs[f].result = "raise"
    /\ \A k \in 1..sdk.n : k # f => IsDict(sdk.outs[k])

\* C21: in every multi-id operation, when the remote call of one id fails and
\* those of the others succeed, no exception ends the batch call, every id
\* is processed, and the result holds the success of every other id and a
\* recorded failure of the failing id.
C21_BatchIsolation ==
    \A f \in 1..MaxIds :
        OneFails(f) =>
            /\ sdk.ret.result # "raise"
            /\ sdk.pc = "done" =>
                  /\ Len(sdk.fetched) = sdk.n
                  /\ Len(sdk.results) = sdk.n
                  /\ \A k \in 1..sdk.n :
                        /\ sdk.results[k].id = BatchIds[k]
                        /\ (sdk.results[k].status = "error") = (k = f)

\* C22: an error raised by the transport reaches the caller of a wrapper
\* method unmodified: same kind, same fields.
C22_ErrorsUnmodified ==
    (sdk.op \in SingleOps /\ sdk.pc = "done" /\ sdk.outs[1].result = "raise") =>
        sdk.ret = sdk.outs[1]

\* every fetch of the call returned or failed with TenableAPIError
SdkErrorsOnly ==
    \A k \in 1..sdk.n :
        sdk.outs[k].result = "raise" => sdk.outs[k].kind = "TenableAPIError"

NeverTerminal == \A k \in 1..Len(poll.statuses) : poll.statuses[k] \notin TerminalStatuses

\* C25 as stated: with a status that never becomes terminal the wait fails
\* with the timeout error once the elapsed time exceeds the timeout, at a
\* time that exceeds the timeout by at most one polling interval.
C25_Original ==
    NeverTerminal =>
        /\ poll.pc = "sleep" => now - poll.start <= poll.timeout
        /\ poll.pc = "done" =>
              /\ poll.ret = PollTimeoutError
              /\ now - poll.start > poll.timeout
              /\ now - poll.start <= poll.timeout + poll.interval

\* C25: with a status that never becomes terminal the wait fails with the
\* timeout error at the first status fetch that ends after the timeout, at a
\* time that exceeds the timeout by at most one polling interval plus the
\* time that last status fetch took.
C25_PollTimeout ==
    NeverTerminal =>
        /\ poll.pc = "sleep" => now - poll.start <= poll.timeout
        /\ poll.pc = "done" =>
              /\ poll.ret = PollTimeoutError
              /\ now - poll.start > poll.timeout
              /\ now - poll.start <= poll.timeout + poll.interval + poll.took

\* the wait failed one interval and one second after the timeout
C25_Witness ==
    /\ NeverTerminal
    /\ poll.pc = "done"
    /\ poll.ret = PollTimeoutError
    /\ poll.took = 1
    /\ now - poll.start = poll.timeout + poll.interval + 1

\* ------------------------------------------------------------------------
\* C26: group_by_severity partitions its input: it returns, every finding
\* is in exactly one group, which is the group of its severity compared
\* without regard to case when that is one of the five severities and
\* 'unknown' otherwise, the group sizes sum to the number of findings, and
\* every group keeps the input order.
\* ------------------------------------------------------------------------
GroupOrder == <<"critical", "high", "medium", "low", "info", "unknown">>

ExpectedGroup(f) ==
    IF f.severity # None /\ Lower(f.severity.val) \in SEVERITY_ORDER
    THEN Lower(f.severity.val)
    ELSE "unknown"

RECURSIVE GroupSizes(_, _)
GroupSizes(groups, n) ==
    IF n = 0 THEN 0
    ELSE GroupSizes(groups, n - 1)
         + (IF GroupOrder[n] \in DOMAIN groups
            THEN Len(groups[GroupOrder[n]]) ELSE 0)

Members(groups, k) == {groups[k][j] : j \in 1..Len(groups[k])}

InInputOrder(q) == \A a, b \in 1..Len(q) : a < b => q[a] < q[b]

C26_Partition ==
    grp.pc = "done" =>
        /\ grp.raised = ""
        /\ \A i \in 1..Len(grp.findings) :
              LET g == ExpectedGroup(grp.findings[i])
              IN  /\ g \in DOMAIN grp.groups
                  /\ i \in Members(grp.groups, g)
                  /\ \A k \in DOMAIN grp.groups \ {g} :
                        i \notin Members(grp.groups, k)
        /\ GroupSizes(grp.groups, Len(GroupOrder)) = Len(grp.findings)
        /\ \A k \in DOMAIN grp.groups : InInputOrder(grp.groups[k])

\* ------------------------------------------------------------------------
\* C27: no cache-backed read returns a value whose TTL has elapsed: a call
\* of get_app, list_notes or list_all that answers from the cache returns
\* no item of an entry older than its TTL.
\* ------------------------------------------------------------------------
C27_NoStaleRead ==
    \A t \in Threads :
        (thr[t].pc = "done" /\ thr[t].look = "hit"
         /\ thr[t].ret.result = "return") => ~thr[t].stale

\* ------------------------------------------------------------------------
\* C28: list_all(use_cache=True) answers from the cache only when the
\* 'apps' namespace holds a complete listing: a list_all that returns what
\* is cached, without a remote listing call, does so only after a list_all
\* has cached a remote listing.
\* ------------------------------------------------------------------------
C28_CompleteListing ==
    \A t \in Threads :
        (thr[t].op = "list_all" /\ thr[t].pc = "done" /\ thr[t].look = "hit"
         /\ thr[t].ret.result = "return") => listed

\* ------------------------------------------------------------------------
\* C29: once delete_app(id) has returned successfully the cache holds no
\* entry for id, whatever get_app(id) calls of the other thread were in
\* flight; and a delete_app whose remote delete failed has left the cache
\* as it was.
\* ------------------------------------------------------------------------
C29_DeletedNotCached ==
    \A t \in Threads :
        (thr[t].op = "delete_app" /\ thr[t].pc = "done"
         /\ thr[t].ret.result = "return")
        => thr[t].id \notin KeysOf(store, "apps")

\* ------------------------------------------------------------------------
\* C30: the transport performs no backoff sleep that is not followed by
\* another request attempt: when a logical request has ended, every sleep
\* it made was followed by a request, so it slept one time fewer than it
\* sent.
\* ------------------------------------------------------------------------
C30_NoTrailingSleep == pc = "done" => Len(slept) = Len(sent) - 1

====
